---- MODULE Spec2Model ----
(***************************************************************************)
(* backend/gig_router/middleware.py: CsrfExemptApiMiddleware.              *)
(*                                                                         *)
(* A request is modelled as its attribute dictionary (a function from      *)
(* attribute names to values); an attribute that was never set is absent   *)
(* from the function's domain.  A path is a sequence of one-character      *)
(* strings, so that str.startswith is computed, not assumed.               *)
(***************************************************************************)
EXTENDS Naturals, Sequences, FiniteSets, TLC

VARIABLES
    middleware,   \* the attribute dictionary of the one shared middleware instance
    reqs,         \* request id -> attribute dictionary of that request
    views,        \* request id -> [view_func, view_args, view_kwargs] resolved for it
    ret,          \* request id -> outcome of the last process_view call on it
    calls,        \* request id -> number of process_view calls made on it
    initial,      \* request id -> the call arguments as they were before the first call
    snaps,        \* request id -> the call arguments as they were after each call
    stage,        \* request id -> position of the request in the dispatch chain
    csrf_saw      \* request id -> what the CSRF stage read from the marker

vars == <<middleware, reqs, views, ret, calls, initial, snaps, stage, csrf_saw>>

----------------------------------------------------------------------------
(* Bounds *)

MaxPathLen == 5
MaxCalls == 2

----------------------------------------------------------------------------
(* Python values and built-ins used by the source *)

None == "None"
NoException == "no exception"

\* setattr(obj, name, value): the attribute is created or overwritten.
setattr(obj, name, value) ==
    [a \in (DOMAIN obj) \cup {name} |-> IF a = name THEN value ELSE obj[a]]

hasattr(obj, name) == name \in DOMAIN obj

\* getattr(obj, name, default)
getattr(obj, name, default) == IF hasattr(obj, name) THEN obj[name] ELSE default

\* The state of attribute name on obj: absent, or the truth value it holds.
attr_state(obj, name) ==
    IF hasattr(obj, name) THEN (IF obj[name] THEN "True" ELSE "False") ELSE "unset"

\* str.startswith(prefix): the first len(prefix) characters equal prefix.
startswith(s, prefix) ==
    /\ Len(s) >= Len(prefix)
    /\ \A i \in 1..Len(prefix) : s[i] = prefix[i]

----------------------------------------------------------------------------
(* The literals of the source *)

\* Variants of the prefix literal: the trailing slash dropped, only the root.
ApiPrefixNoSlash == <<"/", "a", "p", "i">>

ApiPrefixRoot == <<"/">>

\* '/api/'
ApiPrefix == <<"/", "a", "p", "i", "/">>

MarkerAttr == "_dont_enforce_csrf_checks"

----------------------------------------------------------------------------
(* Inputs *)

Alphabet == {"/", "a", "p", "i"}

\* All paths over Alphabet of length at most n.
BoundedPaths(n) == UNION {[1..k -> Alphabet] : k \in 0..n}

\* The paths the specification names.
ExamplePaths ==
    { <<>>,
      <<"/">>,
      <<"/", "a", "p", "i">>,
      <<"/", "a", "p", "i", "/">>,
      <<"/", "a", "p", "i", "/", "u", "s", "e", "r", "s">>,
      <<"/", "a", "p", "i", "/", "v", "2", "/", "g", "i", "g", "s", "/", "4", "2">>,
      <<"/", "a", "p", "i", "/", "o", "r", "d", "e", "r", "s", "/">>,
      <<"/", "a", "d", "m", "i", "n", "/">>,
      <<"/", "a", "p", "i", "a", "r", "y", "/">>,
      <<"/", "A", "P", "I", "/", "u", "s", "e", "r", "s">>,
      <<"/", "d", "a", "s", "h", "b", "o", "a", "r", "d", "/">> }

Paths == ExamplePaths \cup BoundedPaths(MaxPathLen)

Methods == {"GET", "POST"}

Tokens == {"valid", "missing"}

\* A request as the framework hands it over: no marker attribute.
FreshRequests(paths) ==
    {[path |-> p, method |-> m, csrf_token |-> t] :
        p \in paths, m \in Methods, t \in Tokens}

\* A request on which an earlier stage may already have set the marker.
AnyRequests(paths) ==
    FreshRequests(paths)
        \cup {setattr(r, MarkerAttr, v) : r \in FreshRequests(paths), v \in BOOLEAN}

Views ==
    { [view_func |-> "gig_list", view_args |-> <<>>, view_kwargs |-> <<>>],
      [view_func |-> "gig_detail", view_args |-> <<42>>, view_kwargs |-> <<"pk">>] }

MiddlewareInit == [get_response |-> "get_response"]

----------------------------------------------------------------------------
(* CsrfExemptApiMiddleware.process_view *)

\* What one call leaves behind: the (possibly mutated) objects it was handed,
\* its return value and the exception it ended with, if any.
Outcome(self, request, view_func, view_args, view_kwargs, value, exc) ==
    [self |-> self, request |-> request, view_func |-> view_func,
     view_args |-> view_args, view_kwargs |-> view_kwargs,
     ret |-> value, exc |-> exc]

\* Variants of process_view, each with one plausible slip.

\* The marker is never set.
process_view_noop(self, request, view_func, view_args, view_kwargs) ==
    Outcome(self, request, view_func, view_args, view_kwargs, None, NoException)

\* The marker is assigned the test's result on every path.
process_view_assign(self, request, view_func, view_args, view_kwargs) ==
    Outcome(self, setattr(request, MarkerAttr, startswith(request.path, ApiPrefix)),
            view_func, view_args, view_kwargs, None, NoException)

\* The marker is flipped instead of set.
process_view_toggle(self, request, view_func, view_args, view_kwargs) ==
    IF startswith(request.path, ApiPrefix)
    THEN Outcome(self,
                 setattr(request, MarkerAttr, ~getattr(request, MarkerAttr, FALSE)),
                 view_func, view_args, view_kwargs, None, NoException)
    ELSE Outcome(self, request, view_func, view_args, view_kwargs,
                 None, NoException)

\* The decision is kept on the middleware instance.
process_view_cached(self, request, view_func, view_args, view_kwargs) ==
    LET exempt == getattr(self, "exempt", FALSE)
                    \/ startswith(request.path, ApiPrefix)
        self2 == setattr(self, "exempt", exempt)
    IN  IF exempt
        THEN Outcome(self2, setattr(request, MarkerAttr, TRUE),
                     view_func, view_args, view_kwargs, None, NoException)
        ELSE Outcome(self2, request, view_func, view_args, view_kwargs,
                     None, NoException)

\* The first path segment is indexed: path.split('/')[1] fails without a "/".
process_view_indexed(self, request, view_func, view_args, view_kwargs) ==
    IF \A i \in 1..Len(request.path) : request.path[i] # "/"
    THEN Outcome(self, request, view_func, view_args, view_kwargs,
                 "no value", "IndexError")
    ELSE IF startswith(request.path, ApiPrefix)
    THEN Outcome(self, setattr(request, MarkerAttr, TRUE),
                 view_func, view_args, view_kwargs, None, NoException)
    ELSE Outcome(self, request, view_func, view_args, view_kwargs,
                 None, NoException)

\* Only POST requests are exempted.
process_view_post_only(self, request, view_func, view_args, view_kwargs) ==
    IF startswith(request.path, ApiPrefix) /\ request.method = "POST"
    THEN Outcome(self, setattr(request, MarkerAttr, TRUE),
                 view_func, view_args, view_kwargs, None, NoException)
    ELSE Outcome(self, request, view_func, view_args, view_kwargs,
                 None, NoException)

\* A second flag is set along with the marker.
process_view_two_flags(self, request, view_func, view_args, view_kwargs) ==
    IF startswith(request.path, ApiPrefix)
    THEN Outcome(self,
                 setattr(setattr(request, MarkerAttr, TRUE),
                         "csrf_processing_done", TRUE),
                 view_func, view_args, view_kwargs, None, NoException)
    ELSE Outcome(self, request, view_func, view_args, view_kwargs,
                 None, NoException)

\* middleware.py, process_view.
process_view(self, request, view_func, view_args, view_kwargs) ==
    IF startswith(request.path, ApiPrefix)
    THEN Outcome(self, setattr(request, MarkerAttr, TRUE),
                 view_func, view_args, view_kwargs, None, NoException)
    ELSE Outcome(self, request, view_func, view_args, view_kwargs,
                 None, NoException)

----------------------------------------------------------------------------
(* The gate called on a request, as often as MaxCalls *)

\* The arguments process_view is called with for request r (besides self).
Args(r) ==
    [request |-> reqs[r], view_func |-> views[r].view_func,
     view_args |-> views[r].view_args, view_kwargs |-> views[r].view_kwargs]

Call(r) ==
    process_view(middleware, reqs[r], views[r].view_func,
                 views[r].view_args, views[r].view_kwargs)

Apply(r, out) ==
    /\ middleware' = out.self
    /\ reqs' = [reqs EXCEPT ![r] = out.request]
    /\ views' = [views EXCEPT ![r] =
                    [view_func |-> out.view_func, view_args |-> out.view_args,
                     view_kwargs |-> out.view_kwargs]]
    /\ ret' = [ret EXCEPT ![r] = [value |-> out.ret, exc |-> out.exc]]
    /\ calls' = [calls EXCEPT ![r] = @ + 1]
    /\ snaps' = [snaps EXCEPT ![r] =
                    Append(@, [request |-> out.request, view_func |-> out.view_func,
                               view_args |-> out.view_args,
                               view_kwargs |-> out.view_kwargs])]

NotCalled == [value |-> "not called", exc |-> NoException]

InitOn(ids, requests, start) ==
    /\ middleware = MiddlewareInit
    /\ reqs \in [ids -> requests]
    /\ views \in [ids -> Views]
    /\ ret = [r \in ids |-> NotCalled]
    /\ calls = [r \in ids |-> 0]
    /\ initial = [r \in ids |-> Args(r)]
    /\ snaps = [r \in ids |-> <<>>]
    /\ stage = [r \in ids |-> start]
    /\ csrf_saw = [r \in ids |-> "not read"]

ProcessView(r) ==
    /\ stage[r] = "call"
    /\ calls[r] < MaxCalls
    /\ Apply(r, Call(r))
    /\ UNCHANGED <<initial, stage, csrf_saw>>

Init == InitOn({"r1"}, AnyRequests(Paths), "call")

Next == \E r \in DOMAIN reqs : ProcessView(r)

Spec == Init /\ [][Next]_vars

----------------------------------------------------------------------------
(* Two requests in flight on the one middleware instance, calls interleaved *)

InitPair == InitOn({"r1", "r2"}, AnyRequests(ExamplePaths), "call")

SpecPair == InitPair /\ [][Next]_vars

----------------------------------------------------------------------------
(* The dispatch chain: the gate, then the framework's CSRF stage, then the view *)

SafeMethods == {"GET"}

\* The framework's token check of a request that is not exempt.
TokenCheckPasses(request) ==
    request.method \in SafeMethods \/ request.csrf_token = "valid"

\* The framework's CSRF stage: a truthy marker skips the token check.
CsrfAccepts(request) ==
    getattr(request, MarkerAttr, FALSE) \/ TokenCheckPasses(request)

InitPipeline == InitOn({"r1", "r2"}, FreshRequests(ExamplePaths), "resolved")

\* The chain calls the gate's process_view hook first.
Gate(r) ==
    /\ stage[r] = "resolved"
    /\ LET out == Call(r) IN
        /\ Apply(r, out)
        /\ stage' = [stage EXCEPT ![r] =
                        IF out.exc # NoException THEN "error"
                        ELSE IF out.ret # None THEN "short_circuited"
                        ELSE "gated"]
    /\ UNCHANGED <<initial, csrf_saw>>

\* Then the CSRF stage reads the marker and accepts or rejects the request.
CsrfStage(r) ==
    /\ stage[r] = "gated"
    /\ csrf_saw' = [csrf_saw EXCEPT ![r] = attr_state(reqs[r], MarkerAttr)]
    /\ stage' = [stage EXCEPT ![r] =
                    IF CsrfAccepts(reqs[r]) THEN "accepted" ELSE "rejected"]
    /\ UNCHANGED <<middleware, reqs, views, ret, calls, initial, snaps>>

\* An accepted request reaches its view.
View(r) ==
    /\ stage[r] = "accepted"
    /\ stage' = [stage EXCEPT ![r] = "view_done"]
    /\ UNCHANGED <<middleware, reqs, views, ret, calls, initial, snaps, csrf_saw>>

\* The response is sent and the next request arrives in the same worker.
NextRequest(r) ==
    /\ stage[r] \in {"view_done", "rejected"}
    /\ \E q \in FreshRequests(ExamplePaths), v \in Views :
        /\ reqs' = [reqs EXCEPT ![r] = q]
        /\ initial' = [initial EXCEPT ![r] =
                            [request |-> q, view_func |-> v.view_func,
                             view_args |-> v.view_args,
                             view_kwargs |-> v.view_kwargs]]
        /\ views' = [views EXCEPT ![r] = v]
    /\ ret' = [ret EXCEPT ![r] = NotCalled]
    /\ calls' = [calls EXCEPT ![r] = 0]
    /\ snaps' = [snaps EXCEPT ![r] = <<>>]
    /\ stage' = [stage EXCEPT ![r] = "resolved"]
    /\ csrf_saw' = [csrf_saw EXCEPT ![r] = "not read"]
    /\ UNCHANGED middleware

NextPipeline ==
    \/ \E r \in DOMAIN reqs : Gate(r)
    \/ \E r \in DOMAIN reqs : CsrfStage(r)
    \/ \E r \in DOMAIN reqs : View(r)
    \/ \E r \in DOMAIN reqs : NextRequest(r)

SpecPipeline == InitPipeline /\ [][NextPipeline]_vars

----------------------------------------------------------------------------
(* Properties *)

\* "Starts with the literal '/api/'", stated apart from the code's own test.
StartsWithApi(p) ==
    Len(p) >= 5 /\ SubSeq(p, 1, 5) = <<"/", "a", "p", "i", "/">>

Marker(r) == attr_state(reqs[r], MarkerAttr)

Marker0(r) == attr_state(initial[r].request, MarkerAttr)

Path(r) == initial[r].request.path

Called(r) == calls[r] >= 1

ExemptExamples ==
    { <<"/", "a", "p", "i", "/">>,
      <<"/", "a", "p", "i", "/", "u", "s", "e", "r", "s">>,
      <<"/", "a", "p", "i", "/", "v", "2", "/", "g", "i", "g", "s", "/", "4", "2">> }

UnmarkedExamples ==
    { <<"/">>,
      <<"/", "a", "d", "m", "i", "n", "/">>,
      <<"/", "a", "p", "i", "a", "r", "y", "/">>,
      <<"/", "A", "P", "I", "/", "u", "s", "e", "r", "s">>,
      <<"/", "a", "p", "i">> }

\* C1: a request whose marker is unset when process_view is called has the
\* marker True afterwards iff its path starts with '/api/' (case-sensitive,
\* trailing slash included), and is left without a marker otherwise; the
\* paths the claim lists fall on the side it says.
C1_MarkedIffApiPrefix ==
    \A r \in DOMAIN reqs :
        (Called(r) /\ Marker0(r) = "unset") =>
            /\ (Marker(r) = "True") <=> StartsWithApi(Path(r))
            /\ ~StartsWithApi(Path(r)) => Marker(r) = "unset"
            /\ Path(r) \in ExemptExamples => Marker(r) = "True"
            /\ Path(r) \in UnmarkedExamples => Marker(r) = "unset"

C1_Witness ==
    \E r \in DOMAIN reqs :
        /\ Called(r) /\ Marker0(r) = "unset" /\ Marker(r) = "True"
        /\ Path(r) = <<"/", "a", "p", "i", "/", "u", "s", "e", "r", "s">>

\* C2: in the dispatch chain a request whose path starts with '/api/' has been
\* through the gate before the CSRF stage reads it, the CSRF stage reads the
\* marker as true, and the request is never rejected: it goes on to its view
\* with or without a valid token.
C2_ApiRequestReachesView ==
    \A r \in DOMAIN reqs :
        StartsWithApi(Path(r)) =>
            /\ stage[r] \in {"resolved", "gated", "accepted", "view_done"}
            /\ stage[r] # "resolved" => Called(r)
            /\ stage[r] \in {"accepted", "view_done"} => csrf_saw[r] = "True"
            /\ stage[r] \in {"resolved", "gated"} => csrf_saw[r] = "not read"

C2_Witness ==
    \E r \in DOMAIN reqs :
        /\ Path(r) = <<"/", "a", "p", "i", "/", "o", "r", "d", "e", "r", "s", "/">>
        /\ reqs[r].method = "POST" /\ reqs[r].csrf_token = "missing"
        /\ stage[r] = "view_done"

\* C3: in the dispatch chain a request whose path does not start with '/api/'
\* has no marker when the CSRF stage reads it, so the token check decides: the
\* view runs only for a request that passes it, and one that fails is rejected.
C3_NonApiRequestIsChecked ==
    \A r \in DOMAIN reqs :
        ~StartsWithApi(Path(r)) =>
            LET passes == reqs[r].method = "GET" \/ reqs[r].csrf_token = "valid" IN
            /\ Marker(r) = "unset"
            /\ csrf_saw[r] \in {"not read", "unset"}
            /\ stage[r] \in {"resolved", "gated", "accepted", "rejected", "view_done"}
            /\ stage[r] \in {"accepted", "view_done"} => passes
            /\ stage[r] = "rejected" => ~passes

C3_Witness ==
    \E r \in DOMAIN reqs :
        /\ Path(r) = <<"/", "d", "a", "s", "h", "b", "o", "a", "r", "d", "/">>
        /\ reqs[r].method = "POST" /\ reqs[r].csrf_token = "missing"
        /\ csrf_saw[r] = "unset" /\ stage[r] = "rejected"

\* C4: when the path does not start with '/api/', process_view changes nothing
\* of the request: every attribute, the marker included (unset or already
\* set), is after the call what it was before.
C4_NonApiRequestUntouched ==
    \A r \in DOMAIN reqs :
        (Called(r) /\ ~StartsWithApi(Path(r))) =>
            /\ reqs[r] = initial[r].request
            /\ \A i \in 1..Len(snaps[r]) : snaps[r][i].request = initial[r].request

C4_Witness ==
    \E r \in DOMAIN reqs :
        /\ Called(r) /\ Marker0(r) = "False" /\ Marker(r) = "False"
        /\ Path(r) = <<"/", "a", "p", "i">>

\* C5: once a request's marker is true, no call of process_view, on any path,
\* makes it false or removes it.
C5_MarkerMonotonic ==
    [][\A r \in DOMAIN reqs :
          attr_state(reqs[r], MarkerAttr) = "True"
              => attr_state(reqs'[r], MarkerAttr) = "True"]_vars

C5_Witness ==
    \E r \in DOMAIN reqs :
        /\ calls[r] >= 2 /\ Marker0(r) = "True" /\ Marker(r) = "True"
        /\ Path(r) = <<"/", "a", "d", "m", "i", "n", "/">>

\* C6: calling process_view again on the same request leaves the request, and
\* the other call arguments, exactly as the first call left them.
C6_Idempotent ==
    \A r \in DOMAIN reqs :
        /\ \A i \in 1..Len(snaps[r]) : snaps[r][i] = snaps[r][1]
        /\ Called(r) => Args(r) = snaps[r][1]

C6_Witness ==
    \E r \in DOMAIN reqs :
        /\ calls[r] >= 2 /\ Len(snaps[r]) >= 2
        /\ Marker0(r) = "False" /\ Marker(r) = "True"

\* C7: with two requests in flight on one middleware instance, under every
\* interleaving of the calls, each request is what its own path and its own
\* initial state make it, and the middleware instance holds nothing new.
C7_NoCrossRequestState ==
    /\ middleware = MiddlewareInit
    /\ \A r \in DOMAIN reqs :
        /\ DOMAIN reqs[r] \ {MarkerAttr} = DOMAIN initial[r].request \ {MarkerAttr}
        /\ \A a \in DOMAIN reqs[r] \ {MarkerAttr} : reqs[r][a] = initial[r].request[a]
        /\ Marker(r) = IF Called(r) /\ StartsWithApi(Path(r)) THEN "True" ELSE Marker0(r)

C7_Witness ==
    /\ DOMAIN reqs = {"r1", "r2"}
    /\ Called("r1") /\ Called("r2")
    /\ StartsWithApi(Path("r1")) /\ Marker("r1") = "True"
    /\ ~StartsWithApi(Path("r2")) /\ Marker("r2") = "unset"

\* C8: for every path, the empty one included, process_view ends without an
\* exception and returns None; the empty path leaves the request unchanged.
C8_ReturnsNone ==
    \A r \in DOMAIN reqs :
        Called(r) =>
            /\ ret[r] = [value |-> None, exc |-> NoException]
            /\ Path(r) = <<>> => reqs[r] = initial[r].request

C8_Witness ==
    \E r \in DOMAIN reqs :
        /\ Called(r) /\ Path(r) = <<>> /\ ret[r].value = None
        /\ Marker0(r) = "unset" /\ Marker(r) = "unset"

\* C9: two requests with the same path and the same initial marker end with
\* the same marker, whatever their method, token, view_func, view_args and
\* view_kwargs.
C9_DecisionDependsOnPathOnly ==
    \A r \in DOMAIN reqs : \A q \in DOMAIN reqs :
        (/\ Called(r) /\ Called(q)
         /\ Path(r) = Path(q)
         /\ Marker0(r) = Marker0(q)) => Marker(r) = Marker(q)

C9_Witness ==
    /\ DOMAIN reqs = {"r1", "r2"}
    /\ Called("r1") /\ Called("r2")
    /\ Path("r1") = Path("r2") /\ StartsWithApi(Path("r1"))
    /\ Marker0("r1") = "unset" /\ Marker0("r2") = "unset"
    /\ reqs["r1"].method # reqs["r2"].method
    /\ reqs["r1"].csrf_token # reqs["r2"].csrf_token
    /\ views["r1"] # views["r2"]
    /\ Marker("r1") = "True" /\ Marker("r2") = "True"

\* C10: when the path starts with '/api/', process_view changes the marker and
\* nothing else: the request keeps its other attributes and gains none, and
\* view_func, view_args and view_kwargs are as they were.
C10_OnlyMarkerChanges ==
    \A r \in DOMAIN reqs :
        (Called(r) /\ StartsWithApi(Path(r))) =>
            /\ DOMAIN reqs[r] = DOMAIN initial[r].request \cup {MarkerAttr}
            /\ \A a \in DOMAIN reqs[r] \ {MarkerAttr} : reqs[r][a] = initial[r].request[a]
            /\ reqs[r][MarkerAttr] = TRUE
            /\ views[r].view_func = initial[r].view_func
            /\ views[r].view_args = initial[r].view_args
            /\ views[r].view_kwargs = initial[r].view_kwargs

C10_Witness ==
    \E r \in DOMAIN reqs :
        /\ Called(r) /\ Marker0(r) = "unset" /\ Marker(r) = "True"
        /\ Path(r) = <<"/", "a", "p", "i", "/", "v", "2", "/", "g", "i", "g", "s", "/", "4", "2">>
        /\ views[r].view_func = "gig_detail"

====
